---- MODULE Spec2Model ----
(***************************************************************************)
(* A model of the VesselTreeGenerator module of SEEGPlanner: the widget's  *)
(* handlers (VesselTreeGeneratorWidget) and the filters of its logic       *)
(* (VesselTreeGeneratorLogic), acting on a MRML scene, and of the headless *)
(* vesselness script.                                                      *)
(*                                                                         *)
(* Conventions of the model                                                *)
(*  - A scalar is an integer in units of 1/Scale (seven decimals), so the  *)
(*    intensity 200 is 200 * Scale and the sigmoid output 0.7310586 is     *)
(*    7310586.                                                             *)
(*  - An image is a row of NCells cells (a sequence of scalars); a node    *)
(*    without image data has the image << >>.  Each cell stands for a      *)
(*    block of VoxelsPerCell voxels when voxels are counted.               *)
(*  - The scene is the sequence of its nodes; a node's id is its index.    *)
(*    0 stands for None (no node, no segment id).                          *)
(*  - An optional scalar is << >> (None) or <<v>>.                         *)
(*  - A volume's geometry is its spacing (whole millimetres), origin and   *)
(*    direction; its dimensions are the length of its image.  Its pixel    *)
(*    type is "float" or an integer type ("short", "uint8").               *)
(*  - A GUI connection of the parameter node is known by its tag, a       *)
(*    number from 1; closing the scene leaves the empty scene.             *)
(*  - The headless script (vesselTree_vmtk_headless.py) runs its cases on  *)
(*    the same scene; the files it writes are a set of names.              *)
(***************************************************************************)
EXTENDS Integers, Sequences, FiniteSets, TLC

\* ------------------------------------------------------------------ bounds
NCells == 3
VoxelsPerCell == 500
MaxNodes == 5
MaxNodesStep1 == 3
MaxCalls == 1
MaxRuns == 2

\* --------------------------------------------------------------- constants
SigDigits == 6
MinimumSize == 1000
DefaultAlpha == 60
DefaultBeta == 200

None == 0
Cells == 1..NCells

\* ------------------------------------------------------- scalar conversions
Abs(x) == IF x < 0 THEN 0 - x ELSE x

RECURSIVE Pow10(_)
Pow10(n) == IF n = 0 THEN 1 ELSE 10 * Pow10(n - 1)

\* One decimal more than f"{x:g}" keeps.
Scale == Pow10(SigDigits + 1)

\* The intensities of the volumes loaded into the scene, and the values the
\* sliders deliver: the sigmoid's (60, 200) takes 140 to 0.2689414 and 200
\* to 0.5.
Low == 140 * Scale
High == 200 * Scale
\* What the alpha and beta sliders hold when 'Apply Settings' is pressed:
\* their defaults, or alpha at the low end of its range with a beta that no
\* voxel equals (at alpha = 0 a voxel equal to beta gives 0/0).
SliderSettings == {<<DefaultAlpha, DefaultBeta>>, <<0, 170>>}
ThresholdValues == {2689414, 5000000}

RECURSIVE NumDigits(_)
NumDigits(v) == IF v < 10 THEN 1 ELSE 1 + NumDigits(v \div 10)

\* v rounded to the nearest multiple of q, ties to the even multiple.
RoundTo(v, q) ==
    LET lo == v \div q
        r  == v % q
    IN  IF 2 * r > q \/ (2 * r = q /\ lo % 2 = 1) THEN (lo + 1) * q ELSE lo * q

\* f"{x:g}" followed by the effect's reading of the string: the scalar with
\* SigDigits significant digits.
FormatG(x) ==
    LET a == Abs(x)
        d == NumDigits(a)
        r == IF d <= SigDigits THEN a ELSE RoundTo(a, Pow10(d - SigDigits))
    IN  IF x < 0 THEN 0 - r ELSE r

\* ------------------------------------------------------------------ filters
Clamp(i) == IF i < 1 THEN 1 ELSE IF i > NCells THEN NCells ELSE i

\* The median of the 2r+1 values of a window (with repetitions): the value
\* with at most r window places below it and at least r+1 not above it.
WindowMedian(img, i, r) ==
    LET W == (0 - r)..r
        at(d) == img[Clamp(i + d)]
    IN  CHOOSE v \in {at(d) : d \in W} :
            /\ Cardinality({d \in W : at(d) < v}) <= r
            /\ Cardinality({d \in W : at(d) <= v}) >= r + 1

\* sitk.MedianImageFilter with SetRadius(radius): edge cells are replicated.
Median(img, radius) == [i \in Cells |-> WindowMedian(img, i, radius)]

\* 1 / (1 + exp(-x)) at the integers, in units of 1/Scale.
LogisticPos(x) ==
    CASE x = 0 -> 5000000
      [] x = 1 -> 7310586
      [] x = 2 -> 8807971
      [] x = 3 -> 9525741
      [] x = 4 -> 9820138
      [] x = 5 -> 9933071
      [] x = 6 -> 9975274
      [] x = 7 -> 9990889
      [] x = 8 -> 9996646
      [] x = 9 -> 9998766
      [] OTHER -> 9999546

Logistic(x) == IF x >= 0 THEN LogisticPos(x) ELSE Scale - LogisticPos(0 - x)

\* Floor of a / b for b > 0.
FloorDiv(a, b) == a \div b

\* sitk.SigmoidImageFilter on one scalar:
\* (outMax - outMin) / (1 + exp(-(I - beta) / alpha)) + outMin, the exponent
\* taken at the integer below (I - beta) / alpha.  outMin and outMax are
\* whole numbers (0 and 1 by default).
\* With alpha = 0 the quotient is +infinity above beta (the output is
\* outMax) and -infinity below it (outMin); no exception is raised.
SigmoidValue(v, alpha, beta, outMin, outMax) ==
    IF alpha = 0
    THEN CASE v > beta * Scale -> outMax * Scale
           [] v < beta * Scale -> outMin * Scale
    ELSE LET x == FloorDiv(FloorDiv(v, Scale) - beta, alpha)
         IN  (outMax - outMin) * Logistic(x) + outMin * Scale

Sigmoid(img, alpha, beta, outMin, outMax) ==
    [i \in Cells |-> SigmoidValue(img[i], alpha, beta, outMin, outMax)]

\* static_cast of a scalar to a pixel type: an integer type drops the
\* fraction (towards zero).
CastTo(ptype, v) ==
    IF ptype = "float" THEN v
    ELSE IF v >= 0 THEN (v \div Scale) * Scale
    ELSE 0 - ((0 - v) \div Scale) * Scale

\* sitk.SigmoidImageFilter.Execute(image): the output image has the pixel
\* type of the input image, each value cast to it.
SigmoidImageFilter(image, alpha, beta, outMin, outMax) ==
    [image EXCEPT !.img = [i \in Cells |->
                             CastTo(image.ptype,
                                    SigmoidValue(image.img[i], alpha, beta, outMin, outMax))]]

\* GetImageData().GetScalarRange()
RECURSIVE SeqMin(_)
SeqMin(s) ==
    IF Len(s) = 1 THEN s[1]
    ELSE LET m == SeqMin(Tail(s)) IN IF s[1] < m THEN s[1] ELSE m

RECURSIVE SeqMax(_)
SeqMax(s) ==
    IF Len(s) = 1 THEN s[1]
    ELSE LET m == SeqMax(Tail(s)) IN IF s[1] > m THEN s[1] ELSE m

ScalarRange(img) == <<SeqMin(img), SeqMax(img)>>

\* ------------------------------------------------- segment editor effects
EmptyMask == [i \in Cells |-> 0]

\* Threshold effect, onApply: the segment becomes the cells within
\* [MinimumThreshold, MaximumThreshold] of the source volume.
ThresholdMask(img, lo, hi) ==
    [i \in Cells |-> IF lo <= img[i] /\ img[i] <= hi THEN 1 ELSE 0]

\* The island (maximal run of foreground cells) that holds cell i.
IslandStart(mask, i) ==
    CHOOSE a \in 1..i : /\ \A k \in a..i : mask[k] = 1
                        /\ (a = 1 \/ mask[a - 1] = 0)

IslandEnd(mask, i) ==
    CHOOSE b \in i..NCells : /\ \A k \in i..b : mask[k] = 1
                             /\ (b = NCells \/ mask[b + 1] = 0)

IslandSize(mask, i) == IslandEnd(mask, i) - IslandStart(mask, i) + 1

\* Islands effect, KEEP_LARGEST_ISLAND: islands below MinimumSize voxels
\* are dropped, the largest of the rest is kept (the first in scan order
\* among equals).
KeepLargestIsland(mask, minimumSize) ==
    LET fg   == {i \in Cells : mask[i] = 1}
        big  == {i \in fg : IslandSize(mask, i) * VoxelsPerCell >= minimumSize}
        best == CHOOSE i \in big :
                  \A j \in big :
                    \/ IslandSize(mask, j) < IslandSize(mask, i)
                    \/ (IslandSize(mask, j) = IslandSize(mask, i)
                        /\ IslandStart(mask, i) <= IslandStart(mask, j))
    IN  IF big = {} THEN EmptyMask
        ELSE [i \in Cells |->
                IF IslandStart(mask, best) <= i /\ i <= IslandEnd(mask, best)
                THEN 1 ELSE 0]

\* The cells between cell i and the nearest foreground cell that touches the
\* background; without such a cell, the row's length.
BorderDistance(mask, i) ==
    LET border == {b \in Cells : /\ mask[b] # 0
                                 /\ \E n \in {b - 1, b + 1} \cap Cells : mask[n] = 0}
    IN  IF border = {} THEN NCells
        ELSE CHOOSE d \in 0..NCells :
               /\ \E b \in border : Abs(i - b) = d
               /\ \A b \in border : Abs(i - b) >= d

\* A distance map with SetInsideIsPositive(True).
MaurerDistanceMapInsidePositive(mask, spacing) ==
    [i \in Cells |-> IF mask[i] # 0 THEN BorderDistance(mask, i) * spacing * Scale
                     ELSE (0 - BorderDistance(mask, i)) * spacing * Scale]

\* sitk.SignedMaurerDistanceMapImageFilter with UseImageSpacing, not squared,
\* background 0, inside negative: the distance in millimetres (cells times
\* spacing) to the nearest foreground cell that touches the background,
\* negative on the foreground.
MaurerDistanceMap(mask, spacing) ==
    [i \in Cells |-> IF mask[i] # 0 THEN (0 - BorderDistance(mask, i)) * spacing * Scale
                     ELSE BorderDistance(mask, i) * spacing * Scale]

\* ---------------------------------------------------------------- the scene
VARIABLES
    scene,               \* slicer.mrmlScene: the sequence of its nodes
    medianRadius,        \* self._medianRadius: None, 1 or 2
    segmentationNode3D,  \* self._segmentationNode3D: None or a node id
    segmentId3D,         \* self._segmentId3D: None or a segment id
    lastThresholdMin,    \* self._lastThresholdMin: << >> or <<v>>
    lastThresholdMax,    \* self._lastThresholdMax: << >> or <<v>>
    editor,              \* self.segmentEditorWidget3D
    last,                \* the handler that ran last and how it ended
    hist,                \* what has happened in the session so far
    gui,                 \* self._parameterNode, self._parameterNodeGuiTag and
                         \* what the parameter node and the observer mixin hold
    batch                \* the headless script: the cases run, the files
                         \* written, the step the last case raised at

vars == <<scene, medianRadius, segmentationNode3D, segmentId3D,
          lastThresholdMin, lastThresholdMax, editor, last, hist, gui, batch>>

widget == <<medianRadius, segmentationNode3D, segmentId3D,
            lastThresholdMin, lastThresholdMax>>

\* The geometry of a node made by AddNewNodeByClass: unit spacing, origin 0,
\* identity direction.
DefaultGeometry == [spacing |-> 1, origin |-> 0, direction |-> "identity"]

\* A node of the scene.  img: the image data of a volume; geom: its geometry;
\* ptype: its pixel type; segs: the label masks of a segmentation's segments,
\* by segment id; vis2D, vis3D: the display node's visibilities; surface: the
\* mask the closed surface representation was made from (<< >>: none).
Node(cls, name, img) ==
    [cls |-> cls, name |-> name, img |-> img, geom |-> DefaultGeometry,
     ptype |-> "float",
     segs |-> << >>, vis2D |-> FALSE, vis3D |-> FALSE, surface |-> << >>]

\* The pixel types of the volumes loaded from files.
PixelTypes == {"float", "short"}

\* A volume loaded from a file, with the geometry and the pixel type the
\* file gives it.
LoadedVolume(name, img, geom, ptype) ==
    [Node("vtkMRMLScalarVolumeNode", name, img) EXCEPT !.geom = geom, !.ptype = ptype]

NodeIds == 1..Len(scene)
VolumeIds == {n \in NodeIds : scene[n].cls = "vtkMRMLScalarVolumeNode"}

\* What a node selector of the GUI can hold: a scalar volume of the scene,
\* or nothing.
Selectable == VolumeIds \cup {None}

\* scene.GetFirstNodeByName(name): None when there is none.
FirstNodeByName(sc, name) ==
    LET ids == {n \in 1..Len(sc) : sc[n].name = name}
    IN  IF ids = {} THEN None ELSE CHOOSE n \in ids : \A m \in ids : n <= m

\* "ok": the handler ran to its end; "error": it ended in an error display.
\* args: for 'Apply Settings', the input volume, the output volume, alpha and
\* beta it ran with; for a toggle, its checked flag; for a call of the logic,
\* the input and the output volume (and alpha and beta for the sigmoid
\* filter); for 'Apply Threshold', the steps it completed and what it
\* showed; for 'Compute Maurer Distance', once it has got as far as making its labelmap, the segmentation and the reference
\* volume it exported.
OutcomeOf(op, result, args) == [op |-> op, result |-> result, args |-> args]
Outcome(op, result) == OutcomeOf(op, result, << >>)

\* The loaded volumes: foreground cells alternating with background, and a
\* foreground block after one background cell.
Alternating == [i \in Cells |-> IF i % 2 = 1 THEN High ELSE Low]
Step == [i \in Cells |-> IF i = 1 THEN Low ELSE High]
Images == {Alternating, Step}

\* The geometry of a loaded volume: the alternating one has 2 mm voxels, the
\* stepped one 3 mm voxels and another origin and direction.
VolumeGeometry(img) ==
    IF img = Alternating
    THEN [spacing |-> 2, origin |-> 10, direction |-> "LPS"]
    ELSE [spacing |-> 3, origin |-> 0 - 5, direction |-> "RAS"]

\* The effects a segment editor widget can have registered; which ones it has
\* is fixed when the widget is made.
Effects == {"Threshold", "Islands"}
EffectSets == {{}, {"Threshold"}, Effects}

\* ----------------------------------------------- the parameter node and GUI
\* gui.parameterNode: whether self._parameterNode is set; gui.tag:
\* self._parameterNodeGuiTag (None, or the tag connectGui returned);
\* gui.live: the tags of the GUI connections the parameter node holds;
\* gui.observers: the ModifiedEvent observers registered for _checkCanApply;
\* gui.issued: the tags issued so far; gui.released: the tags passed to
\* disconnectGui by the event that ran last; gui.isSetup, gui.isEntered:
\* setup() has run, the module is the one shown (parent.isEntered);
\* gui.tolerant: whether disconnectGui accepts a tag it does not hold.
GuiRaised(g) == [ok |-> FALSE, gui |-> g]
GuiReturned(g) == [ok |-> TRUE, gui |-> g]

\* __init__: no parameter node, no tag.
GuiConstructed(tolerant) ==
    [parameterNode |-> FALSE, tag |-> None, live |-> {}, observers |-> 0,
     issued |-> 0, released |-> << >>, isSetup |-> FALSE, isEntered |-> FALSE,
     tolerant |-> tolerant]

\* self._parameterNode.disconnectGui(tag): the connection of that tag is
\* released; given a tag the node does not hold (None), the call does
\* nothing or raises.
disconnectGui(g, tag) ==
    LET g1 == [g EXCEPT !.released = Append(@, tag), !.live = @ \ {tag}]
    IN  IF tag \in g.live \/ g.tolerant THEN GuiReturned(g1) ELSE GuiRaised(g1)

\* self._parameterNode.connectGui(self.ui): a new connection, a new tag.
connectGui(g) ==
    [g EXCEPT !.tag = g.issued + 1, !.issued = @ + 1, !.live = @ \cup {g.issued + 1}]

\* self.removeObserver / self.addObserver for ModifiedEvent and
\* _checkCanApply: the mixin drops the observer it holds, and adds none it
\* already holds.
removeObserver(g) == [g EXCEPT !.observers = 0]
addObserver(g) == IF g.observers >= 1 THEN g ELSE [g EXCEPT !.observers = @ + 1]

\* setParameterNode(inputParameterNode); the node is given as a flag, FALSE
\* for None.
setParameterNode(g, inputParameterNode) ==
    LET d == IF g.parameterNode THEN disconnectGui(g, g.tag) ELSE GuiReturned(g)
        g1 == IF g.parameterNode THEN removeObserver(d.gui) ELSE d.gui
        g2 == [g1 EXCEPT !.parameterNode = inputParameterNode]
    IN  IF ~d.ok THEN d
        ELSE IF inputParameterNode THEN GuiReturned(addObserver(connectGui(g2)))
        ELSE GuiReturned(g2)

\* initializeParameterNode(): self.logic.getParameterNode() is never None.
initializeParameterNode(g) == setParameterNode(g, TRUE)

\* onSceneStartClose(caller, event)
onSceneStartClose(g) == setParameterNode(g, FALSE)

\* onSceneEndClose(caller, event)
onSceneEndClose(g) == IF g.isEntered THEN initializeParameterNode(g) ELSE GuiReturned(g)

\* The GUI state once the module has been set up and entered.
GuiEntered ==
    LET g1 == [initializeParameterNode(GuiConstructed(TRUE)).gui EXCEPT !.isSetup = TRUE]
    IN  [initializeParameterNode([g1 EXCEPT !.released = << >>]).gui
            EXCEPT !.isEntered = TRUE]

\* VesselTreeGeneratorWidget.__init__ and setup(), but for the parameter
\* node.
WidgetMade(effects) ==
    /\ medianRadius = None
    /\ segmentationNode3D = None
    /\ segmentId3D = None
    /\ lastThresholdMin = << >>
    /\ lastThresholdMax = << >>
    /\ editor = [effects |-> effects,
                 segmentationNode |-> None, sourceVolume |-> None,
                 currentSegmentID |-> None, activeEffect |-> "None",
                 MinimumThreshold |-> << >>, MaximumThreshold |-> << >>]
    /\ last = Outcome("setup", "ok")
    /\ hist = [previewed |-> FALSE, createdFor |-> None, finalized |-> {},
               calls |-> 0]
    /\ batch = [cases |-> 0, files |-> {}, failed |-> "none"]

\* The widget after __init__, setup() and enter().
WidgetInit(effects) ==
    /\ WidgetMade(effects)
    /\ gui = GuiEntered

\* The module opened on a scene with a loaded volume and a second volume node
\* still without image data (a freshly created output volume).
InitPre ==
    /\ \E img \in Images, name \in {"CT", "intermediate_median"}, ptype \in PixelTypes :
         scene = << LoadedVolume(name, img, VolumeGeometry(img), ptype),
                    Node("vtkMRMLScalarVolumeNode", "Output", << >>) >>
    /\ WidgetInit(Effects)

\* The module opened on a scene with a floating-point volume of unit
\* geometry, whose output volume is still without image data, or holds the
\* preprocessed volume of an earlier run (with the geometry of the volume it
\* was made from).
InitSeg ==
    /\ \E img \in Images :
       \E out \in {Node("vtkMRMLScalarVolumeNode", "Output", << >>),
                   LoadedVolume("Output", Sigmoid(img, DefaultAlpha, DefaultBeta, 0, 1),
                                DefaultGeometry, "float")} :
         scene = << LoadedVolume("CT", img, DefaultGeometry, "float"), out >>
    /\ \E effects \in EffectSets : WidgetInit(effects)

\* ------------------------------------------------------- noise reduction
\* A 'low' toggle that takes an unchecked button for "no noise reduction".
onNoiseReductionLowUnsets(checked) ==
    /\ medianRadius' = IF checked THEN 1 ELSE None
    /\ last' = OutcomeOf("onNoiseReductionLow", "ok", <<checked>>)
    /\ UNCHANGED <<scene, segmentationNode3D, segmentId3D, lastThresholdMin,
                   lastThresholdMax, editor, hist, gui, batch>>

onNoiseReductionLow(checked) ==
    /\ medianRadius' = IF checked THEN 1 ELSE medianRadius
    /\ last' = OutcomeOf("onNoiseReductionLow", "ok", <<checked>>)
    /\ UNCHANGED <<scene, segmentationNode3D, segmentId3D, lastThresholdMin,
                   lastThresholdMax, editor, hist, gui, batch>>

onNoiseReductionHigh(checked) ==
    /\ medianRadius' = IF checked THEN 2 ELSE medianRadius
    /\ last' = OutcomeOf("onNoiseReductionHigh", "ok", <<checked>>)
    /\ UNCHANGED <<scene, segmentationNode3D, segmentId3D, lastThresholdMin,
                   lastThresholdMax, editor, hist, gui, batch>>

\* ------------------------------------------------------------- the logic
\* The outcome of a call on a scene: whether it raised, and the scene it left.
Raised(sc) == [ok |-> FALSE, scene |-> sc]
Returned(sc) == [ok |-> TRUE, scene |-> sc]

SetImage(sc, n, img) == [sc EXCEPT ![n].img = img]

\* sitkUtils.PullVolumeFromSlicer(node): the SimpleITK image of a node, its
\* voxels with its geometry and pixel type.
PullVolumeFromSlicer(sc, n) ==
    [img |-> sc[n].img, geom |-> sc[n].geom, ptype |-> sc[n].ptype]

\* A push that writes the voxels and leaves the target node's geometry alone.
PushVoxelsOnly(sc, n, image) == [SetImage(sc, n, image.img) EXCEPT ![n].ptype = image.ptype]

\* sitkUtils.PushVolumeToSlicer(image, targetNode): the node takes the
\* image's voxels, geometry and pixel type.
PushVolumeToSlicer(sc, n, image) ==
    [SetImage(sc, n, image.img) EXCEPT ![n].geom = image.geom,
                                       ![n].ptype = image.ptype]

\* sitkUtils.PullVolumeFromSlicer: there is nothing to pull from a node
\* without image data, and the call raises.
CanPull(sc, n) == sc[n].img # << >>

\* A median filter that filters first and finds out about a missing output
\* when it is about to push: it returns with nothing pushed.
applyMedianFilterLenient(sc, inputVolume, outputVolume, radius) ==
    IF inputVolume = None THEN Raised(sc)
    ELSE IF ~CanPull(sc, inputVolume) THEN Raised(sc)
    ELSE IF outputVolume = None THEN Returned(sc)
    ELSE Returned(PushVolumeToSlicer(sc, outputVolume,
             [PullVolumeFromSlicer(sc, inputVolume) EXCEPT !.img = Median(@, radius)]))

\* VesselTreeGeneratorLogic.applyMedianFilter(inputVolume, outputVolume, radius)
applyMedianFilter(sc, inputVolume, outputVolume, radius) ==
    IF inputVolume = None \/ outputVolume = None THEN Raised(sc)
    ELSE IF ~CanPull(sc, inputVolume) THEN Raised(sc)
    ELSE Returned(PushVolumeToSlicer(sc, outputVolume,
             [PullVolumeFromSlicer(sc, inputVolume) EXCEPT !.img = Median(@, radius)]))

\* VesselTreeGeneratorLogic.applySigmoidFilter(inputVolume, outputVolume,
\* alpha, beta, outputMinimum, outputMaximum)
applySigmoidFilter(sc, inputVolume, outputVolume, alpha, beta, outputMinimum, outputMaximum) ==
    IF inputVolume = None \/ outputVolume = None THEN Raised(sc)
    ELSE IF ~CanPull(sc, inputVolume) THEN Raised(sc)
    ELSE Returned(PushVolumeToSlicer(sc, outputVolume,
             SigmoidImageFilter(PullVolumeFromSlicer(sc, inputVolume),
                                alpha, beta, outputMinimum, outputMaximum)))

\* VesselTreeGeneratorLogic.MaurerDistance(inputVolume, outputVolume)
MaurerDistance(sc, inputVolume, outputVolume) ==
    IF inputVolume = None \/ outputVolume = None THEN Raised(sc)
    ELSE IF sc[inputVolume].cls # "vtkMRMLLabelMapVolumeNode" THEN Raised(sc)
    ELSE IF ~CanPull(sc, inputVolume) THEN Raised(sc)
    \* the distance map is a floating-point image on the input's grid
    ELSE Returned(PushVolumeToSlicer(sc, outputVolume,
             [PullVolumeFromSlicer(sc, inputVolume)
                 EXCEPT !.img = MaurerDistanceMap(@, sc[inputVolume].geom.spacing),
                        !.ptype = "float"]))

\* ------------------------------------------------------- onApplySettings
\* A median step that never filters: the sigmoid reads the input volume.
MedianStepSkipped(sc, inputVolume, radius, saveIntermediate) ==
    [result |-> inputVolume, temp |-> None, out |-> Returned(sc)]

\* The median step of onApplySettings: the node the sigmoid will read, the
\* temporary node (None when there is none) and the outcome of the filter.
MedianStep(sc, inputVolume, radius, saveIntermediate) ==
    IF radius = None
    THEN [result |-> inputVolume, temp |-> None, out |-> Returned(sc)]
    ELSE IF saveIntermediate
    THEN LET existingNode == FirstNodeByName(sc, "intermediate_median")
             sc1 == IF existingNode # None THEN sc
                    ELSE Append(sc, Node("vtkMRMLScalarVolumeNode", "intermediate_median", << >>))
             intermediateNode == IF existingNode # None THEN existingNode ELSE Len(sc1)
         IN  [result |-> intermediateNode, temp |-> None,
              out |-> applyMedianFilter(sc1, inputVolume, intermediateNode, radius)]
    ELSE LET sc1 == Append(sc, Node("vtkMRMLScalarVolumeNode", "TempMedianForSigmoid", << >>))
             tempMedianNode == Len(sc1)
         IN  [result |-> tempMedianNode, temp |-> tempMedianNode,
              out |-> applyMedianFilter(sc1, inputVolume, tempMedianNode, radius)]

\* slicer.mrmlScene.RemoveNode(tempMedianNode): the node added last.
RemoveTemp(sc) == SubSeq(sc, 1, Len(sc) - 1)

ApplySettings(sc, inputVolume, outputVolume, radius, saveIntermediate, alpha, beta) ==
    IF inputVolume = None \/ outputVolume = None THEN Raised(sc)
    ELSE LET m == MedianStep(sc, inputVolume, radius, saveIntermediate)
         IN  IF ~m.out.ok THEN m.out
             ELSE LET s == applySigmoidFilter(m.out.scene, m.result, outputVolume,
                                              alpha, beta, 0, 1)
                  IN  IF ~s.ok THEN s
                      ELSE IF m.temp # None THEN Returned(RemoveTemp(s.scene))
                      ELSE s

onApplySettings(inputVolume, outputVolume, saveIntermediate, alpha, beta) ==
    \E r \in {ApplySettings(scene, inputVolume, outputVolume, medianRadius,
                            saveIntermediate, alpha, beta)} :
        /\ Len(r.scene) <= MaxNodesStep1
        /\ hist.calls < MaxRuns
        /\ hist' = [hist EXCEPT !.calls = @ + 1]
        /\ scene' = r.scene
        /\ last' = OutcomeOf("onApplySettings", IF r.ok THEN "ok" ELSE "error",
                             <<inputVolume, outputVolume, alpha, beta>>)
        /\ UNCHANGED <<widget, editor, gui, batch>>

\* ------------------------------------------------------ onAddSegmentation
\* An 'Add Segmentation' that adds a 'Vessels' segment on every call.
AddSegmentationAddsSegment(sc, segNode3D, segId3D) ==
    LET sc1 == IF segNode3D = None
               THEN Append(sc, Node("vtkMRMLSegmentationNode", "VesselsSegmentation", << >>))
               ELSE sc
        segNode == IF segNode3D = None THEN Len(sc1) ELSE segNode3D
        sc3 == [sc1 EXCEPT ![segNode].vis2D = TRUE, ![segNode].vis3D = FALSE,
                           ![segNode].segs = Append(@, [i \in Cells |-> 0])]
    IN  [scene |-> sc3, node |-> segNode, segId |-> Len(sc3[segNode].segs)]

\* The environment of a handler is given with its call: the node each
\* selector holds, whether the layout has a 3D view, whether the scene has
\* the colour table.
\* w.setActiveEffectByName(name); w.activeEffect()
ActiveEffect(name, w) == IF name \in w.effects THEN name ELSE "None"

\* The segment's mask is replaced; a closed surface representation that
\* exists follows its source mask.
SetMask(sc, node, segId, mask) ==
    [sc EXCEPT ![node].segs[segId] = mask,
               ![node].surface = IF @ = << >> THEN @ ELSE mask]

\* segmentation.GetSegment(segId)
HasSegment(sc, node, segId) == segId # None /\ segId \in 1..Len(sc[node].segs)

\* The scene onAddSegmentation leaves: the segmentation node (created if the
\* widget has none) with its display set and the 'Vessels' segment (created
\* if the widget's segment id names none).
AddSegmentation(sc, segNode3D, segId3D) ==
    LET sc1 == IF segNode3D = None
               THEN Append(sc, Node("vtkMRMLSegmentationNode", "VesselsSegmentation", << >>))
               ELSE sc
        segNode == IF segNode3D = None THEN Len(sc1) ELSE segNode3D
        sc2 == [sc1 EXCEPT ![segNode].vis2D = TRUE, ![segNode].vis3D = FALSE]
        create == ~HasSegment(sc2, segNode, segId3D)
        sc3 == IF create THEN [sc2 EXCEPT ![segNode].segs = Append(@, EmptyMask)]
               ELSE sc2
    IN  [scene |-> sc3, node |-> segNode,
         segId |-> IF create THEN Len(sc3[segNode].segs) ELSE segId3D]

onAddSegmentation(volumeNode) ==
    IF volumeNode = None
    THEN /\ last' = Outcome("onAddSegmentation", "error")
         /\ UNCHANGED <<scene, widget, editor, hist, gui, batch>>
    ELSE \E a \in {AddSegmentation(scene, segmentationNode3D, segmentId3D)} :
         \E hasData \in {scene[volumeNode].img # << >>} :
             /\ Len(a.scene) <= MaxNodes
             /\ scene' = a.scene
             /\ segmentationNode3D' = a.node
             /\ segmentId3D' = a.segId
             /\ editor' = [editor EXCEPT !.segmentationNode = a.node,
                                         !.sourceVolume = volumeNode,
                                         !.currentSegmentID = a.segId,
                                         !.activeEffect = ActiveEffect("Threshold", editor)]
             /\ hist' = [hist EXCEPT !.createdFor = volumeNode]
             \* volumeNode.GetImageData().GetScalarRange(): without image
             \* data GetImageData() is None and the handler ends here.
             /\ lastThresholdMin' = IF hasData THEN <<ScalarRange(scene[volumeNode].img)[1]>>
                                    ELSE lastThresholdMin
             /\ lastThresholdMax' = IF hasData THEN <<ScalarRange(scene[volumeNode].img)[2]>>
                                    ELSE lastThresholdMax
             /\ last' = Outcome("onAddSegmentation", IF hasData THEN "ok" ELSE "error")
             /\ UNCHANGED <<medianRadius, gui, batch>>

\* ----------------------------------------------- onThresholdValuesChanged
\* A preview that writes the thresholded mask into the segment.
PreviewApplied(sc, segNode, segId, volumeNode, lo, hi) ==
    IF sc[volumeNode].img = << >> THEN sc
    ELSE SetMask(sc, segNode, segId, ThresholdMask(sc[volumeNode].img, lo, hi))

\* The scene after the effect's parameters are set for a preview: onApply is
\* not called, the effect redraws its overlay and the scene stays as it is.
Preview(sc, segNode, segId, volumeNode, lo, hi) == sc

onThresholdValuesChanged(minimum, maximum, volumeNode) ==
    /\ lastThresholdMin' = <<minimum>>
    /\ lastThresholdMax' = <<maximum>>
    /\ hist' = [hist EXCEPT !.previewed = TRUE]
    /\ UNCHANGED <<medianRadius, segmentationNode3D, segmentId3D, gui, batch>>
    /\ IF segmentationNode3D = None \/ segmentId3D = None \/ volumeNode = None
       THEN /\ last' = Outcome("onThresholdValuesChanged", "ok")
            /\ UNCHANGED <<scene, editor>>
       ELSE \E w \in {[editor EXCEPT !.segmentationNode = segmentationNode3D,
                                     !.sourceVolume = volumeNode,
                                     !.currentSegmentID = segmentId3D,
                                     !.activeEffect = ActiveEffect("Threshold", editor)]} :
                IF w.activeEffect = "None"
                THEN /\ editor' = w
                     /\ last' = Outcome("onThresholdValuesChanged", "error")
                     /\ UNCHANGED scene
                ELSE /\ editor' = [w EXCEPT !.MinimumThreshold = <<FormatG(minimum)>>,
                                            !.MaximumThreshold = <<FormatG(maximum)>>]
                     /\ scene' = Preview(scene, segmentationNode3D, segmentId3D, volumeNode,
                                         FormatG(minimum), FormatG(maximum))
                     /\ last' = Outcome("onThresholdValuesChanged", "ok")

\* ------------------------------------------------- onApplyThresholdShow3D
\* A Threshold effect that adds the thresholded voxels to the segment
\* instead of replacing it.
ThresholdApplyAdds(sc, w) ==
    SetMask(sc, w.segmentationNode, w.currentSegmentID,
            [i \in Cells |->
                IF sc[w.segmentationNode].segs[w.currentSegmentID][i] = 1 THEN 1
                ELSE ThresholdMask(sc[w.sourceVolume].img,
                                   w.MinimumThreshold[1], w.MaximumThreshold[1])[i]])

\* The Threshold effect's onApply with the parameters the editor holds: the
\* current segment's mask becomes the thresholded source volume.
ThresholdApply(sc, w) ==
    SetMask(sc, w.segmentationNode, w.currentSegmentID,
            ThresholdMask(sc[w.sourceVolume].img,
                          w.MinimumThreshold[1], w.MaximumThreshold[1]))

\* A finalize without its island step.
IslandsSkipped(sc, w) == sc

\* The Islands effect's onApply, KEEP_LARGEST_ISLAND with MinimumSize.
IslandsApply(sc, w) ==
    SetMask(sc, w.segmentationNode, w.currentSegmentID,
            KeepLargestIsland(sc[w.segmentationNode].segs[w.currentSegmentID],
                              MinimumSize))

\* CreateClosedSurfaceRepresentation, SetVisibility3D(True),
\* SetDisplayVisibility(1)
Show3D(sc, segNode, segId) ==
    [sc EXCEPT ![segNode].surface = sc[segNode].segs[segId],
               ![segNode].vis3D = TRUE]

\* The steps of 'Apply Threshold', in the order of the code.
FinalizeSteps == <<"threshold", "islands", "surface", "visibility3D", "camera">>

\* steps: the steps of FinalizeSteps the handler completed.
Finalized(ok, sc, w, steps) == [ok |-> ok, scene |-> sc, editor |-> w, steps |-> steps]

\* The body of the handler's try block: how it ends, the scene and the
\* editor it leaves, and the steps it completed.
ApplyThresholdShow3D(sc, w0, volumeNode, has3DView) ==
    IF lastThresholdMin = << >> \/ lastThresholdMax = << >> THEN Finalized(FALSE, sc, w0, << >>)
    ELSE IF segmentationNode3D = None \/ segmentId3D = None THEN Finalized(FALSE, sc, w0, << >>)
    ELSE IF volumeNode = None THEN Finalized(FALSE, sc, w0, << >>)
    ELSE
    LET w1 == [w0 EXCEPT !.segmentationNode = segmentationNode3D,
                         !.sourceVolume = volumeNode,
                         !.currentSegmentID = segmentId3D,
                         !.activeEffect = ActiveEffect("Threshold", w0)]
    IN  IF w1.activeEffect = "None" THEN Finalized(FALSE, sc, w1, << >>)
        ELSE
        LET w2 == [w1 EXCEPT !.MinimumThreshold = <<FormatG(lastThresholdMin[1])>>,
                             !.MaximumThreshold = <<FormatG(lastThresholdMax[1])>>]
        IN  \* the effect reads the source volume's image data
            IF sc[volumeNode].img = << >> THEN Finalized(FALSE, sc, w2, << >>)
            ELSE
            LET sc1 == ThresholdApply(sc, w2)
                w3 == [w2 EXCEPT !.activeEffect = ActiveEffect("Islands", w0)]
            IN  IF w3.activeEffect = "None"
                THEN Finalized(FALSE, sc1, w3, SubSeq(FinalizeSteps, 1, 1))
                ELSE
                LET sc2 == IslandsApply(sc1, w3)
                    w4 == [w3 EXCEPT !.activeEffect = "None"]
                    sc3 == Show3D(sc2, segmentationNode3D, segmentId3D)
                IN  \* layoutManager.threeDWidget(0) is None without a 3D view
                    Finalized(has3DView, sc3, w4,
                              SubSeq(FinalizeSteps, 1, IF has3DView THEN 5 ELSE 4))

\* A handler that shows its popup as soon as the segmentation is visible in
\* 3D, before the camera is reset.
ShownBeforeCamera(f) ==
    (IF Len(f.steps) >= 4 THEN {"infoDisplay"} ELSE {})
        \cup (IF f.ok THEN {} ELSE {"errorDisplay"})

\* What the handler shows: slicer.util.errorDisplay where the try block ends
\* in its early return or in the except clause, slicer.util.infoDisplay
\* ('Vessel Tree successfully created!') after the try block otherwise.
Shown(f) == IF f.ok THEN {"infoDisplay"} ELSE {"errorDisplay"}

onApplyThresholdShow3D(volumeNode, has3DView) ==
    \E f \in {ApplyThresholdShow3D(scene, editor, volumeNode, has3DView)} :
        /\ scene' = f.scene
        /\ editor' = f.editor
        /\ last' = OutcomeOf("onApplyThresholdShow3D", IF f.ok THEN "ok" ELSE "error",
                             <<f.steps, Shown(f)>>)
        /\ hist' = IF f.ok THEN [hist EXCEPT !.finalized = @ \cup {segmentationNode3D}]
                   ELSE hist
        /\ UNCHANGED <<widget, gui, batch>>

\* ------------------------------------------------ onComputeMaurerDistance
\* ExportSegmentsToLabelmapNode: each voxel carries the label of the segment
\* that covers it (the last one where several do), 0 where none does.
MergedLabelmap(segs) ==
    [i \in Cells |->
        LET on == {k \in 1..Len(segs) : segs[k][i] = 1}
        IN  IF on = {} THEN 0 ELSE CHOOSE k \in on : \A j \in on : j <= k]

\* An export handed on as it is, labels 1..N.
BinarizeSkipped(img) == img

\* sitk.Cast(LabelMapImg > 0, sitk.sitkUInt8)
Binarize(img) == [i \in 1..Len(img) |-> IF img[i] > 0 THEN 1 ELSE 0]

\* ExportSegmentsToLabelmapNode(segmentationNode, segmentIDs, labelmapNode,
\* refVolume): the labelmap takes the merged labels in the geometry of the
\* reference volume.
ExportSegmentsToLabelmapNode(sc, segmentationNode, labelmapNode, refVolume) ==
    [SetImage(sc, labelmapNode, MergedLabelmap(sc[segmentationNode].segs))
        EXCEPT ![labelmapNode].geom = sc[refVolume].geom,
               ![labelmapNode].ptype = "short"]

ComputeMaurerDistance(sc, segmentationNode, refVolume, lutInScene) ==
    IF segmentationNode = None THEN Raised(sc)
    ELSE IF sc[segmentationNode].cls # "vtkMRMLSegmentationNode" THEN Raised(sc)
    ELSE IF refVolume = None THEN Raised(sc)
    ELSE IF Len(sc[segmentationNode].segs) < 1 THEN Raised(sc)
    ELSE
    LET sc1 == Append(sc, Node("vtkMRMLLabelMapVolumeNode", "Vessels_Labelmap", << >>))
        labelmapNode == Len(sc1)
        sc2 == ExportSegmentsToLabelmapNode(sc1, segmentationNode, labelmapNode, refVolume)
        sc3 == PushVolumeToSlicer(sc2, labelmapNode,
                   [PullVolumeFromSlicer(sc2, labelmapNode)
                       EXCEPT !.img = Binarize(@), !.ptype = "uint8"])
        outName == sc[segmentationNode].name \o "_MaurerDistance"
        sc4 == Append(sc3, Node("vtkMRMLScalarVolumeNode", outName, << >>))
        maurerOutputNode == Len(sc4)
        d == MaurerDistance(sc4, labelmapNode, maurerOutputNode)
    IN  IF ~d.ok THEN d
        \* slicer.util.getNode("HotToColdRainbow") raises when the scene has
        \* no such node
        ELSE IF ~lutInScene THEN Raised(d.scene)
        ELSE d

onComputeMaurerDistance(segmentationNode, refVolume, lutInScene) ==
    \E r \in {ComputeMaurerDistance(scene, segmentationNode, refVolume, lutInScene)} :
        /\ Len(r.scene) <= MaxNodes
        /\ scene' = r.scene
        /\ last' = OutcomeOf("onComputeMaurerDistance", IF r.ok THEN "ok" ELSE "error",
                             IF Len(r.scene) > Len(scene)
                             THEN <<segmentationNode, refVolume>> ELSE << >>)
        /\ UNCHANGED <<widget, editor, hist, gui, batch>>

\* ---------------------------------------------------------- specifications
NextPre ==
    \/ \E checked \in BOOLEAN : onNoiseReductionLow(checked)
    \/ \E checked \in BOOLEAN : onNoiseReductionHigh(checked)
    \/ \E inputVolume \in Selectable, outputVolume \in Selectable,
          saveIntermediate \in BOOLEAN, sliders \in SliderSettings :
          onApplySettings(inputVolume, outputVolume, saveIntermediate,
                          sliders[1], sliders[2])

\* Step 1 of the module: noise reduction and 'Apply Settings'.
SpecPre == InitPre /\ [][NextPre]_vars

NextSeg ==
    \/ \E volumeNode \in Selectable :
          onAddSegmentation(volumeNode)
    \/ \E minimum \in ThresholdValues, maximum \in ThresholdValues,
          volumeNode \in Selectable :
          onThresholdValuesChanged(minimum, maximum, volumeNode)
    \/ \E volumeNode \in Selectable, has3DView \in BOOLEAN :
          onApplyThresholdShow3D(volumeNode, has3DView)
    \/ \E segmentationNode \in NodeIds \cup {None}, refVolume \in Selectable,
          lutInScene \in BOOLEAN :
          onComputeMaurerDistance(segmentationNode, refVolume, lutInScene)

\* Steps 2 and 3 of the module: segmentation, threshold, distance map.
SpecSeg == InitSeg /\ [][NextSeg]_vars

\* ------------------------------------------------------ step 2 on its own
\* The beta of an earlier run of step 1 that centred the sigmoid above the
\* volume's intensities: its output holds 0.1192029 and 0.2689414.
HighBeta == 260

\* The module opened on a scene with a floating-point volume and an output
\* volume that is still without image data, or holds what an earlier run of
\* step 1 made from the volume, with the default beta or with HighBeta.
InitStep2 ==
    /\ \E img \in Images :
       \E out \in {Node("vtkMRMLScalarVolumeNode", "Output", << >>)}
                   \cup {LoadedVolume("Output", Sigmoid(img, DefaultAlpha, beta, 0, 1),
                                      VolumeGeometry(img), "float") :
                            beta \in {DefaultBeta, HighBeta}} :
         scene = << LoadedVolume("CT", img, VolumeGeometry(img), "float"), out >>
    /\ \E effects \in EffectSets : WidgetInit(effects)

NextStep2 ==
    \/ \E volumeNode \in Selectable :
          onAddSegmentation(volumeNode)
    \/ \E minimum \in ThresholdValues, maximum \in ThresholdValues,
          volumeNode \in Selectable :
          onThresholdValuesChanged(minimum, maximum, volumeNode)
    \/ \E volumeNode \in Selectable, has3DView \in BOOLEAN :
          onApplyThresholdShow3D(volumeNode, has3DView)

\* Step 2 of the module: segmentation, threshold preview, 'Apply Threshold'.
SpecStep2 == InitStep2 /\ [][NextStep2]_vars

\* ------------------------------------------------- the module's life cycle
\* The most GUI connections made in a session.
MaxTags == 4

\* The handlers of an event start with nothing released.
Fresh(g) == [g EXCEPT !.released = << >>]

\* setup(): ends in initializeParameterNode().
setup ==
    /\ ~gui.isSetup
    /\ gui.issued < MaxTags
    /\ gui' = [initializeParameterNode(Fresh(gui)).gui EXCEPT !.isSetup = TRUE]
    /\ last' = Outcome("setup", "ok")
    /\ UNCHANGED <<scene, widget, editor, hist, batch>>

\* enter(): the user opens the module.
enter ==
    /\ gui.isSetup /\ ~gui.isEntered
    /\ gui.issued < MaxTags
    /\ \E r \in {initializeParameterNode(Fresh(gui))} :
          /\ gui' = [r.gui EXCEPT !.isEntered = TRUE]
          /\ last' = Outcome("enter", IF r.ok THEN "ok" ELSE "error")
    /\ UNCHANGED <<scene, widget, editor, hist, batch>>

\* exit(): the user opens another module.
exit ==
    /\ gui.isEntered
    /\ \E d \in {IF gui.parameterNode THEN disconnectGui(Fresh(gui), gui.tag)
                  ELSE GuiReturned(Fresh(gui))} :
          /\ gui' = [(IF gui.parameterNode /\ d.ok
                      THEN removeObserver([d.gui EXCEPT !.tag = None])
                      ELSE d.gui) EXCEPT !.isEntered = FALSE]
          /\ last' = Outcome("exit", IF d.ok THEN "ok" ELSE "error")
    /\ UNCHANGED <<scene, widget, editor, hist, batch>>

\* slicer.mrmlScene.Clear(): StartCloseEvent, the nodes are removed,
\* EndCloseEvent.  The segment editor's selections go with their nodes; an
\* error in one observer does not keep the other from running.
sceneClose ==
    /\ gui.isSetup
    /\ gui.issued < MaxTags
    /\ \E s \in {onSceneStartClose(Fresh(gui))} :
       \E e \in {onSceneEndClose(s.gui)} :
          /\ gui' = e.gui
          /\ last' = Outcome("sceneClose", IF s.ok /\ e.ok THEN "ok" ELSE "error")
    /\ scene' = << >>
    /\ editor' = [editor EXCEPT !.segmentationNode = None, !.sourceVolume = None,
                                !.currentSegmentID = None, !.activeEffect = "None"]
    /\ UNCHANGED <<widget, hist, batch>>

\* A new session: the module is made, on a scene with a floating-point
\* volume and an empty output volume, and has not been set up yet.
InitLifecycle ==
    /\ \E img \in Images :
         scene = << LoadedVolume("CT", img, VolumeGeometry(img), "float"),
                    Node("vtkMRMLScalarVolumeNode", "Output", << >>) >>
    /\ \E effects \in {Effects} : WidgetMade(effects)
    /\ \E tolerant \in BOOLEAN : gui = GuiConstructed(tolerant)

\* The buttons of the module are pressed while it is the one shown.
NextLifecycle ==
    \/ setup
    \/ enter
    \/ exit
    \/ sceneClose
    \/ \E volumeNode \in Selectable :
          gui.isEntered /\ onAddSegmentation(volumeNode)
    \/ \E volumeNode \in Selectable, has3DView \in BOOLEAN :
          gui.isEntered /\ onApplyThresholdShow3D(volumeNode, has3DView)

\* The module's life cycle: setup, enter, exit, scene close, and step 2.
SpecLifecycle == InitLifecycle /\ [][NextLifecycle]_vars

\* ------------------------------------------------------ the headless script
\* The most cases run in one Slicer session.
MaxCases == 2

\* An input path that names no loadable volume.
Unloadable == << >>

\* What input_path can name: a loadable volume, or none.
InputPaths == Images \cup {Unloadable}

\* The calls of run_vesselness after the load that can raise, in the order
\* of the code; "none": none does.
FailurePoints == {"none", "vesselness", "save", "import", "export"}

\* What computeVesselnessVolume can leave in its output: no response
\* anywhere, or a response at the bright voxels.
Responses(img) ==
    {[i \in Cells |-> 0], [i \in Cells |-> IF img[i] = High THEN Scale ELSE 0]}

\* How a case ends: the scene and the files it leaves, and the step it
\* raised at ("none": it returned).
CaseEnded(sc, files, failed) == [scene |-> sc, files |-> files, failed |-> failed]

\* slicer.mrmlScene.Clear(0): every node is removed.
Clear(sc) == << >>

\* The body of run_vesselness.
RunVesselness(sc, files, input_path, response, failAt) ==
    \* slicer.util.loadVolume fails: RuntimeError, from it or from line 27
    IF input_path = Unloadable THEN CaseEnded(sc, files, "load")
    ELSE
    LET sc1 == Append(sc, LoadedVolume("CTA", input_path, VolumeGeometry(input_path),
                                       "short"))
        volumeNode == Len(sc1)
        sc2 == Append(sc1, Node("vtkMRMLScalarVolumeNode", "VesselnessOutput", << >>))
        vesselNode == Len(sc2)
    IN  IF failAt = "vesselness" THEN CaseEnded(sc2, files, "vesselness")
        ELSE
        LET sc3 == [SetImage(sc2, vesselNode, response)
                       EXCEPT ![vesselNode].geom = sc2[volumeNode].geom]
        IN  \* os.makedirs(output_dir) raises
            IF failAt = "save" THEN CaseEnded(sc3, files, "save")
            ELSE
            LET files1 == files \cup {"output_dir", "vesselness.nrrd"}
                sc4 == Append(sc3, Node("vtkMRMLSegmentationNode", "VesselSeg", << >>))
                segNode == Len(sc4)
            IN  IF failAt = "import" THEN CaseEnded(sc4, files1, "import")
                ELSE
                LET sc5 == [sc4 EXCEPT ![segNode].segs = <<Binarize(response)>>]
                IN  \* os.makedirs(mesh_dir) or the export raises
                    IF failAt = "export" THEN CaseEnded(sc5, files1, "export")
                    ELSE CaseEnded(Clear(sc5), files1 \cup {"mesh", "stl"}, "none")

run_vesselness(input_path, response, failAt) ==
    /\ batch.cases < MaxCases
    /\ \E c \in {RunVesselness(scene, batch.files, input_path, response, failAt)} :
          /\ scene' = c.scene
          /\ batch' = [cases |-> batch.cases + 1, files |-> c.files, failed |-> c.failed]
          /\ last' = OutcomeOf("run_vesselness",
                               IF c.failed = "none" THEN "ok" ELSE "error",
                               <<Len(scene), batch.files>>)
    /\ UNCHANGED <<widget, editor, hist, gui>>

\* Slicer started without the module's GUI, on an empty scene.
InitHeadless ==
    /\ scene = << >>
    /\ \E effects \in {Effects} : WidgetMade(effects)
    /\ gui = GuiConstructed(TRUE)

NextHeadless ==
    \E input_path \in InputPaths, failAt \in FailurePoints :
    \E response \in Responses(IF input_path = Unloadable THEN Alternating ELSE input_path) :
        run_vesselness(input_path, response, failAt)

\* The headless script, one case after another.
SpecHeadless == InitHeadless /\ [][NextHeadless]_vars

\* ------------------------------------------------- the logic, called directly
\* The volume nodes of the scene, scalar and labelmap: what a caller of the
\* logic can pass for inputVolume and outputVolume, besides None.
AnyVolumeIds ==
    {n \in NodeIds : scene[n].cls \in {"vtkMRMLScalarVolumeNode",
                                       "vtkMRMLLabelMapVolumeNode"}}
Passable == AnyVolumeIds \cup {None}

\* A call of a method of the logic from outside the widget; hist.calls
\* counts them, as it counts the runs of 'Apply Settings'.
CalledWith(op, r, args) ==
    /\ hist.calls < MaxCalls
    /\ hist' = [hist EXCEPT !.calls = @ + 1]
    /\ scene' = r.scene
    /\ last' = OutcomeOf(op, IF r.ok THEN "ok" ELSE "error", args)
    /\ UNCHANGED <<widget, editor, gui, batch>>

Called(op, r, inputVolume, outputVolume) ==
    CalledWith(op, r, <<inputVolume, outputVolume>>)

callApplyMedianFilter(inputVolume, outputVolume, radius) ==
    Called("applyMedianFilter",
           applyMedianFilter(scene, inputVolume, outputVolume, radius),
           inputVolume, outputVolume)

\* The (alpha, beta) pairs a caller passes: the defaults, the steepest
\* sigmoid centred on the low intensity, the flattest of the slider's range.
SigmoidSettings == {<<DefaultAlpha, DefaultBeta>>, <<1, 140>>, <<150, 200>>}

callApplySigmoidFilter(inputVolume, outputVolume, alpha, beta) ==
    CalledWith("applySigmoidFilter",
               applySigmoidFilter(scene, inputVolume, outputVolume, alpha, beta, 0, 1),
               <<inputVolume, outputVolume, alpha, beta>>)

callMaurerDistance(inputVolume, outputVolume) ==
    Called("MaurerDistance",
           MaurerDistance(scene, inputVolume, outputVolume),
           inputVolume, outputVolume)

\* The masks of the segments of a segmentation made outside the module.
SegmentMasks == {[i \in Cells |-> IF i <= 2 THEN 1 ELSE 0],
                 [i \in Cells |-> IF i >= 2 THEN 1 ELSE 0]}
SegmentLists == {<<m>> : m \in SegmentMasks}
                   \cup {<<m1, m2>> : m1 \in SegmentMasks, m2 \in SegmentMasks}

\* The labelmaps of the scene: a binary one, and one with the labels of two
\* segments.
Labelmaps == {[i \in Cells |-> IF i >= 2 THEN 1 ELSE 0],
              [i \in Cells |-> IF i <= 2 THEN i ELSE 0]}

\* The geometry of the labelmap volume: 4 mm voxels.
LabelmapGeometry == [spacing |-> 4, origin |-> 2, direction |-> "identity"]

\* A scene with a loaded volume, a segmentation of one or two segments and a
\* labelmap volume of another geometry, none of them made by the module.
InitLogic ==
    /\ \E img \in Images, segs \in SegmentLists, labels \in Labelmaps,
          ptype \in PixelTypes :
         scene = << LoadedVolume("CT", img, VolumeGeometry(img), ptype),
                    [Node("vtkMRMLSegmentationNode", "Segmentation", << >>)
                        EXCEPT !.segs = segs],
                    [Node("vtkMRMLLabelMapVolumeNode", "Labels", labels)
                        EXCEPT !.geom = LabelmapGeometry, !.ptype = "short"] >>
    /\ WidgetInit(Effects)

NextLogic ==
    \/ \E inputVolume \in Passable, outputVolume \in Passable, radius \in {1, 2} :
          callApplyMedianFilter(inputVolume, outputVolume, radius)
    \/ \E inputVolume \in Passable, outputVolume \in Passable,
          setting \in SigmoidSettings :
          callApplySigmoidFilter(inputVolume, outputVolume, setting[1], setting[2])
    \/ \E inputVolume \in Passable, outputVolume \in Passable :
          callMaurerDistance(inputVolume, outputVolume)
    \/ \E segmentationNode \in NodeIds \cup {None}, refVolume \in Selectable,
          lutInScene \in BOOLEAN :
          onComputeMaurerDistance(segmentationNode, refVolume, lutInScene)

\* The logic's filters called on any volumes, and step 3 of the module on a
\* segmentation of several segments.
SpecLogic == InitLogic /\ [][NextLogic]_vars

\* ------------------------------------------------------------- properties
\* C1: 'Apply Threshold' pressed before the threshold slider was ever moved
\* is rejected with an error and leaves the scene, the segment's mask with
\* it, as it was.
C1_FinalizeBeforePreviewRejected ==
    [][(last'.op = "onApplyThresholdShow3D" /\ ~hist.previewed)
          => (last'.result = "error" /\ scene' = scene)]_vars

\* C2: an 'Apply Settings' that ends in an error leaves the scene exactly as
\* it was: no node added, no node's contents changed.
C2_ApplySettingsErrorLeavesScene ==
    [][(last'.op = "onApplySettings" /\ last'.result = "error")
          => scene' = scene]_vars

\* C3: an 'Apply Threshold' that ends in an error, at whatever step, leaves
\* the segment's mask and the segmentation's display as they were.
C3_FinalizeErrorLeavesScene ==
    [][(last'.op = "onApplyThresholdShow3D" /\ last'.result = "error")
          => scene' = scene]_vars

\* C4: a 'Compute Maurer Distance' that ends in an error has added no node
\* to the scene and changed no node's image data.
C4_DistanceErrorLeavesScene ==
    [][(last'.op = "onComputeMaurerDistance" /\ last'.result = "error")
          => scene' = scene]_vars

\* C5: 'Apply Settings' never changes the image data of its input volume,
\* whichever volume is the output and whatever the input is named.
C5_InputVolumeNeverMutated ==
    [][(last'.op = "onApplySettings" /\ last'.args[1] # None)
          => scene'[last'.args[1]].img = scene[last'.args[1]].img]_vars

\* C6: 'Apply Threshold' succeeds only on the volume the segmentation was
\* made for: with another volume in its place it ends in an error.
C6_FinalizeRejectsOtherVolume ==
    [][(last'.op = "onApplyThresholdShow3D" /\ last'.result = "ok")
          => editor'.sourceVolume = hist.createdFor]_vars

\* C7: a distance map is computed only for a segmentation that an 'Apply
\* Threshold' has finalized before.
C7_DistanceOnlyAfterFinalize ==
    [][(last'.op = "onComputeMaurerDistance" /\ last'.result = "ok")
          => segmentationNode3D \in hist.finalized]_vars

\* C8: when 'Apply Settings' succeeds, the output volume holds the sigmoid,
\* applied once, of the median-filtered input if a median radius is set and
\* of the input itself if none is.
C8_OutputIsSigmoidOfMedian ==
    [][(last'.op = "onApplySettings" /\ last'.result = "ok")
          => LET inputImage == scene[last'.args[1]].img
                 filtered == IF medianRadius = None THEN inputImage
                             ELSE Median(inputImage, medianRadius)
                 image == [PullVolumeFromSlicer(scene, last'.args[1])
                              EXCEPT !.img = filtered]
             IN  scene'[last'.args[2]].img =
                    SigmoidImageFilter(image, last'.args[3], last'.args[4], 0, 1).img]_vars

\* C8, its case: a median radius is set, 'Apply Settings' has succeeded on
\* an input the median changes, and the output is the sigmoid of the
\* filtered input, not of the input.
C8_Witness ==
    /\ last.op = "onApplySettings" /\ last.result = "ok"
    /\ medianRadius # None
    /\ last.args[1] # last.args[2]
    /\ Median(scene[last.args[1]].img, medianRadius) # scene[last.args[1]].img
    /\ scene[last.args[1]].ptype = "float"
    /\ scene[last.args[2]].img =
          Sigmoid(Median(scene[last.args[1]].img, medianRadius),
                  last.args[3], last.args[4], 0, 1)
    /\ scene[last.args[2]].img #
          Sigmoid(scene[last.args[1]].img, last.args[3], last.args[4], 0, 1)

\* C9: a threshold pair with min > max given to the slider handler or to
\* 'Apply Threshold' is rejected: after either, the recorded pair is not an
\* inverted one.
C9_InvertedPairNotRecorded ==
    [][(last'.op \in {"onThresholdValuesChanged", "onApplyThresholdShow3D"})
          => (lastThresholdMin' # << >> /\ lastThresholdMax' # << >>
                 => lastThresholdMin'[1] <= lastThresholdMax'[1])]_vars

\* C10: moving the threshold slider changes nothing in the scene, neither
\* the source volume nor the segment's mask; an existing segment's mask
\* changes only in 'Apply Threshold'.
C10_PreviewLeavesScene ==
    [][/\ last'.op = "onThresholdValuesChanged" => scene' = scene
       /\ (/\ segmentationNode3D # None
           /\ segmentId3D # None
           /\ scene'[segmentationNode3D].segs[segmentId3D]
                 # scene[segmentationNode3D].segs[segmentId3D])
          => last'.op = "onApplyThresholdShow3D"]_vars

\* C10, its case: the slider handler has set the Threshold effect's
\* parameters on a volume they select voxels of, and the segment's mask is
\* still empty.
C10_Witness ==
    /\ last.op = "onThresholdValuesChanged" /\ last.result = "ok"
    /\ segmentationNode3D # None /\ segmentId3D # None
    /\ editor.activeEffect = "Threshold"
    /\ editor.MinimumThreshold = <<FormatG(lastThresholdMin[1])>>
    /\ scene[editor.sourceVolume].img # << >>
    /\ ThresholdMask(scene[editor.sourceVolume].img,
                     editor.MinimumThreshold[1], editor.MaximumThreshold[1]) # EmptyMask
    /\ scene[segmentationNode3D].segs[segmentId3D] = EmptyMask

\* C11: MaurerDistance rejects every label volume that holds a value other
\* than 0 or 1: the call ends in an error and nothing is written to the
\* output volume.
C11_NonBinaryLabelmapRejected ==
    [][(/\ last'.op = "MaurerDistance"
        /\ last'.args[1] # None /\ last'.args[2] # None
        /\ scene[last'.args[1]].cls = "vtkMRMLLabelMapVolumeNode"
        /\ \E i \in Cells : scene[last'.args[1]].img[i] \notin {0, 1})
          => (last'.result = "error" /\ scene' = scene)]_vars

\* C12: whenever 'Compute Maurer Distance' gets as far as making its labelmap,
\* for a segmentation of one or more segments, the labelmap it hands to
\* MaurerDistance is binary: a voxel is 1 exactly where the exported label is
\* above 0, and 0 elsewhere; the distance map is computed from that labelmap.
C12_LabelmapHandedOnIsBinary ==
    [][(last'.op = "onComputeMaurerDistance" /\ Len(scene') > Len(scene))
          => \E s \in NodeIds :
               /\ scene[s].cls = "vtkMRMLSegmentationNode"
               /\ Len(scene[s].segs) >= 1
               /\ LET exported == MergedLabelmap(scene[s].segs)
                      labelmap == scene'[Len(scene) + 1].img
                  IN  /\ scene'[Len(scene) + 1].name = "Vessels_Labelmap"
                      /\ \A i \in Cells :
                           labelmap[i] = IF exported[i] > 0 THEN 1 ELSE 0
                      /\ scene'[Len(scene) + 2].img =
                            MaurerDistanceMap(labelmap, scene'[Len(scene) + 1].geom.spacing)]_vars

\* C12, its case: the handler has run on a segmentation of two segments whose
\* export carries the label 2, and the labelmap holds 1 there.
C12_Witness ==
    /\ last.op = "onComputeMaurerDistance" /\ last.result = "ok"
    /\ \E s \in NodeIds, n \in NodeIds, i \in Cells :
         /\ scene[s].cls = "vtkMRMLSegmentationNode"
         /\ Len(scene[s].segs) = 2
         /\ MergedLabelmap(scene[s].segs)[i] = 2
         /\ scene[n].name = "Vessels_Labelmap"
         /\ scene[n].img[i] = 1

\* C13: applyMedianFilter, applySigmoidFilter and MaurerDistance, called
\* without an input volume or without an output volume, end in an error and
\* leave every node of the scene as it was.
C13_AbsentVolumeRejected ==
    [][(/\ last'.op \in {"applyMedianFilter", "applySigmoidFilter", "MaurerDistance"}
        /\ (last'.args[1] = None \/ last'.args[2] = None))
          => (last'.result = "error" /\ scene' = scene)]_vars

\* C13, its case: a filter of the logic was called with an input volume that
\* has image data and no output volume, and ended in an error.
C13_Witness ==
    /\ last.op \in {"applyMedianFilter", "applySigmoidFilter", "MaurerDistance"}
    /\ last.args[1] # None /\ last.args[2] = None
    /\ scene[last.args[1]].img # << >>
    /\ last.result = "error"

\* C14: an 'Apply Settings' with alpha <= 0 or alpha > 150, or with beta
\* outside [0, 500], fails validation: it ends in an error and the output
\* volume keeps its image data.
C14_SigmoidParametersValidated ==
    [][(/\ last'.op = "onApplySettings"
        /\ \/ last'.args[3] <= 0 \/ last'.args[3] > 150
           \/ last'.args[4] < 0 \/ last'.args[4] > 500)
          => /\ last'.result = "error"
             /\ last'.args[2] # None
                  => scene'[last'.args[2]].img = scene[last'.args[2]].img]_vars

\* C15: a successful 'Apply Threshold' leaves in the segment exactly the
\* largest connected component of the thresholded volume, whatever its voxel
\* count: a largest component of fewer than 1000 voxels is kept, the segment
\* is not emptied.
C15_LargestComponentKept ==
    [][(last'.op = "onApplyThresholdShow3D" /\ last'.result = "ok")
          => scene'[segmentationNode3D].segs[segmentId3D] =
                KeepLargestIsland(
                    ThresholdMask(scene[editor'.sourceVolume].img,
                                  editor'.MinimumThreshold[1],
                                  editor'.MaximumThreshold[1]),
                    0)]_vars

\* C16: the median-filtered volume of a run without saveIntermediate is a
\* transient: whether 'Apply Settings' succeeded or ended in an error, no
\* node named 'TempMedianForSigmoid' is in the scene afterwards.
C16_NoTempNodeLeft ==
    \A n \in NodeIds : scene[n].name # "TempMedianForSigmoid"

\* C17: 'Apply Settings' writes the intermediate median only into a node it
\* made for it: a volume that was in the scene when the module was opened
\* (nodes 1 and 2), whatever its name, keeps its image data unless it is the
\* selected output volume.
C17_IntermediateOnlyInOwnSlot ==
    [][last'.op = "onApplySettings"
          => \A n \in {1, 2} :
               n # last'.args[2] => scene'[n].img = scene[n].img]_vars

\* C18: the median radius is always unset, 1 or 2: it starts unset, a checked
\* 'low' toggle sets it to 1, a checked 'high' toggle sets it to 2, an
\* unchecked toggle leaves it as it is, and nothing else changes it.
C18_MedianRadiusValues ==
    /\ medianRadius = None
    /\ [][/\ medianRadius' \in {None, 1, 2}
          /\ last'.op = "onNoiseReductionLow"
                => medianRadius' = IF last'.args[1] THEN 1 ELSE medianRadius
          /\ last'.op = "onNoiseReductionHigh"
                => medianRadius' = IF last'.args[1] THEN 2 ELSE medianRadius
          /\ last'.op \notin {"onNoiseReductionLow", "onNoiseReductionHigh"}
                => medianRadius' = medianRadius]_vars

\* C18, its case: the 'low' button was unchecked while the radius was 2, and
\* the radius is still 2.
C18_Witness ==
    /\ last.op = "onNoiseReductionLow"
    /\ last.args = <<FALSE>>
    /\ medianRadius = 2

\* C19: the steps of one 'Apply Threshold' come in order: the thresholded
\* mask is written first, the island filter runs on it after that, and the
\* closed surface and the 3D visibility come only after the island filter.
\* A finalize that changes the scene leaves in the segment the thresholded
\* mask or its island-filtered form; if the surface or the 3D visibility
\* changed, the mask is the island-filtered one and the surface is made
\* from it; a surface is never made from a mask that was not filtered.
C19_FinalizeStepsInOrder ==
    [][(last'.op = "onApplyThresholdShow3D" /\ scene' # scene)
          => LET seg == scene'[segmentationNode3D]
                 thresholded == ThresholdMask(scene[editor'.sourceVolume].img,
                                              editor'.MinimumThreshold[1],
                                              editor'.MaximumThreshold[1])
                 filtered == KeepLargestIsland(thresholded, MinimumSize)
             IN  /\ seg.segs[segmentId3D] \in {thresholded, filtered}
                 /\ (\/ seg.surface # scene[segmentationNode3D].surface
                     \/ seg.vis3D # scene[segmentationNode3D].vis3D)
                       => (seg.segs[segmentId3D] = filtered /\ seg.vis3D)
                 /\ seg.surface # << >> => seg.surface = filtered]_vars

\* C19, its case: an 'Apply Threshold' has run to its end on a volume whose
\* thresholded mask the island filter changes; the surface shown in 3D is
\* the filtered mask.
C19_Witness ==
    /\ last.op = "onApplyThresholdShow3D" /\ last.result = "ok"
    /\ scene[segmentationNode3D].vis3D
    /\ scene[segmentationNode3D].surface = scene[segmentationNode3D].segs[segmentId3D]
    /\ scene[segmentationNode3D].surface #
          ThresholdMask(scene[editor.sourceVolume].img,
                        editor.MinimumThreshold[1], editor.MaximumThreshold[1])

\* C20: the segment a successful 'Apply Threshold' leaves is a function of
\* the source volume and the recorded thresholds alone, not of what the
\* segment held before nor of earlier slider moves; run again right after a
\* successful run on the same volume, it leaves the same mask.
C20_FinalizeHistoryFree ==
    [][(last'.op = "onApplyThresholdShow3D" /\ last'.result = "ok")
          => /\ scene'[segmentationNode3D].segs[segmentId3D] =
                   KeepLargestIsland(
                       ThresholdMask(scene[editor'.sourceVolume].img,
                                     FormatG(lastThresholdMin[1]),
                                     FormatG(lastThresholdMax[1])),
                       MinimumSize)
             /\ (/\ last.op = "onApplyThresholdShow3D" /\ last.result = "ok"
                 /\ editor.sourceVolume = editor'.sourceVolume)
                   => scene'[segmentationNode3D].segs[segmentId3D] =
                         scene[segmentationNode3D].segs[segmentId3D]]_vars

\* C20, its case: after slider moves away from the volume's scalar range, an
\* 'Apply Threshold' has succeeded and left a segment that is not empty.
C20_Witness ==
    /\ last.op = "onApplyThresholdShow3D" /\ last.result = "ok"
    /\ hist.previewed
    /\ <<lastThresholdMin[1], lastThresholdMax[1]>> #
          ScalarRange(scene[editor.sourceVolume].img)
    /\ scene[segmentationNode3D].segs[segmentId3D] # EmptyMask
    /\ scene[segmentationNode3D].segs[segmentId3D] =
          KeepLargestIsland(
              ThresholdMask(scene[editor.sourceVolume].img,
                            editor.MinimumThreshold[1], editor.MaximumThreshold[1]),
              MinimumSize)

\* C21: the distance map of a binary labelmap has the fixed sign and physical
\* units: a foreground voxel that does not touch the background gets a
\* negative value, a background voxel a positive one, and where the labelmap
\* has a boundary the magnitude is the distance in millimetres (cells times
\* spacing, not squared) to the nearest boundary voxel.  This holds for a
\* direct call of MaurerDistance and for the call 'Compute Maurer Distance'
\* makes.
C21_SignConvention ==
    [][LET Signed(labels, spacing, out) ==
               LET boundary == {b \in Cells :
                                   /\ labels[b] = 1
                                   /\ \E n \in {b - 1, b + 1} \cap Cells : labels[n] = 0}
                   mm(i) == CHOOSE d \in 0..(NCells * spacing) :
                              /\ \E b \in boundary : Abs(i - b) * spacing = d
                              /\ \A b \in boundary : Abs(i - b) * spacing >= d
               IN  \A i \in Cells :
                     /\ (labels[i] = 1 /\ i \notin boundary) => out[i] < 0
                     /\ labels[i] = 0 => out[i] > 0
                     /\ (boundary # {} /\ i \notin boundary)
                           => Abs(out[i]) = mm(i) * Scale
       IN  /\ (/\ last'.op = "MaurerDistance" /\ last'.result = "ok"
               /\ \A i \in Cells : scene[last'.args[1]].img[i] \in {0, 1})
                 => Signed(scene[last'.args[1]].img, scene[last'.args[1]].geom.spacing,
                           scene'[last'.args[2]].img)
           /\ (last'.op = "onComputeMaurerDistance" /\ last'.args # << >>)
                 => Signed(scene'[Len(scene) + 1].img, scene'[Len(scene) + 1].geom.spacing,
                           scene'[Len(scene) + 2].img)]_vars

\* C21, its case: MaurerDistance has run on a binary labelmap of voxels
\* larger than 1 mm that has a voxel inside and a voxel outside; the output
\* holds minus the spacing at the one and plus the spacing at the other.
C21_Witness ==
    /\ last.op = "MaurerDistance" /\ last.result = "ok"
    /\ last.args[1] # last.args[2]
    /\ scene[last.args[1]].geom.spacing > 1
    /\ \E i \in Cells, j \in Cells :
         /\ scene[last.args[1]].img = [k \in Cells |-> IF k >= 2 THEN 1 ELSE 0]
         /\ i = 3 /\ j = 1
         /\ scene[last.args[2]].img[i] = (0 - scene[last.args[1]].geom.spacing) * Scale
         /\ scene[last.args[2]].img[j] = scene[last.args[1]].geom.spacing * Scale

C23_SigmoidRangeAndMidpoint ==
    [][(/\ last'.op = "applySigmoidFilter" /\ last'.result = "ok"
        /\ last'.args[3] > 0)
          => \A i \in Cells :
               /\ 0 <= scene'[last'.args[2]].img[i]
               /\ scene'[last'.args[2]].img[i] <= Scale
               /\ scene[last'.args[1]].img[i] = last'.args[4] * Scale
                     => 2 * scene'[last'.args[2]].img[i] = Scale]_vars

\* C24: the last request wins.  The recorded threshold pair changes only
\* when the slider delivers a pair or 'Add Segmentation' takes the source
\* volume's scalar range, and a successful 'Apply Threshold' leaves the
\* segment thresholded with exactly the pair recorded last: the mask is the
\* largest island of the voxels v with min <= v <= max.
C24_LastRequestWins ==
    [][/\ last'.op \notin {"onThresholdValuesChanged", "onAddSegmentation"}
             => /\ lastThresholdMin' = lastThresholdMin
                /\ lastThresholdMax' = lastThresholdMax
       /\ (last'.op = "onAddSegmentation" /\ last'.result = "ok")
             => <<lastThresholdMin'[1], lastThresholdMax'[1]>> =
                   ScalarRange(scene[editor'.sourceVolume].img)
       /\ (last'.op = "onApplyThresholdShow3D" /\ last'.result = "ok")
             => scene'[segmentationNode3D].segs[segmentId3D] =
                   KeepLargestIsland(
                       ThresholdMask(scene[editor'.sourceVolume].img,
                                     lastThresholdMin[1], lastThresholdMax[1]),
                       MinimumSize)]_vars

\* C25: every 'Apply Threshold' shows exactly one of the success popup and
\* the error display, and the popup only when every step of that run was
\* completed: the thresholded mask written and island-filtered, the closed
\* surface made from it, the segmentation visible in 3D, the camera reset.
C25_PopupOnlyAfterAllSteps ==
    [][last'.op = "onApplyThresholdShow3D"
          => LET steps == last'.args[1]
                 shown == last'.args[2]
                 seg == scene'[segmentationNode3D]
             IN  /\ shown \in {{"infoDisplay"}, {"errorDisplay"}}
                 /\ "infoDisplay" \in shown
                       => /\ steps = FinalizeSteps
                          /\ seg.segs[segmentId3D] =
                                KeepLargestIsland(
                                    ThresholdMask(scene[editor'.sourceVolume].img,
                                                  editor'.MinimumThreshold[1],
                                                  editor'.MaximumThreshold[1]),
                                    MinimumSize)
                          /\ seg.surface = seg.segs[segmentId3D]
                          /\ seg.vis3D
                 /\ steps # FinalizeSteps => shown = {"errorDisplay"}]_vars

\* C25, its case: an 'Apply Threshold' completed every step but the camera
\* reset (the layout has no 3D view), and showed the error display alone.
C25_Witness ==
    /\ last.op = "onApplyThresholdShow3D"
    /\ last.args[1] = SubSeq(FinalizeSteps, 1, 4)
    /\ scene[segmentationNode3D].vis3D
    /\ last.args[2] = {"errorDisplay"}

\* C26: however often 'Add Segmentation' is pressed, between previews and
\* 'Apply Threshold' runs, the scene holds at most one 'VesselsSegmentation'
\* node, the one the widget refers to, and that node holds at most one
\* segment, the one the widget's segment id names.
C26_OneSegmentationOneSegment ==
    LET made == {n \in NodeIds : scene[n].name = "VesselsSegmentation"}
    IN  /\ Cardinality(made) <= 1
        /\ segmentationNode3D = None => (made = {} /\ segmentId3D = None)
        /\ segmentationNode3D # None
              => /\ made = {segmentationNode3D}
                 /\ Len(scene[segmentationNode3D].segs) = 1
                 /\ segmentId3D = 1

\* C26, its case: 'Add Segmentation' was pressed again after an 'Apply
\* Threshold' had filled the segment; the one segment is still there with
\* its voxels.
C26_Witness ==
    /\ last.op = "onAddSegmentation" /\ last.result = "ok"
    /\ Len(scene[segmentationNode3D].segs) = 1
    /\ scene[segmentationNode3D].segs[segmentId3D] # EmptyMask

\* C27: whenever the widget's segmentation reference (_segmentationNode3D) is
\* set, it refers to a node that is in the scene, also once the scene has
\* been closed.
C27_SegmentationReferenceInScene ==
    segmentationNode3D # None => segmentationNode3D \in NodeIds

\* The scene has been closed and the widget still holds the segmentation
\* node that 'Add Segmentation' made before.
C27_StaleReferenceAfterClose ==
    /\ last.op = "sceneClose"
    /\ scene = << >>
    /\ segmentationNode3D # None

\* C28: over setup, enter, exit and scene close, the GUI is connected to the
\* parameter node exactly when the tag held is that of a live connection, no
\* connection is released with an absent (None) tag, and the ModifiedEvent
\* observer is registered at most once and only while the GUI is connected.
C28_GuiConnectionLifecycle ==
    /\ (gui.live # {}) <=> (gui.tag # None /\ gui.tag \in gui.live)
    /\ \A i \in 1..Len(gui.released) : gui.released[i] # None
    /\ gui.observers <= 1
    /\ gui.observers = 1 => gui.live # {}

\* The module is entered again after an exit: setParameterNode released the
\* connection with the tag exit had set to None.
C28_ReleasedWithNoneOnReenter ==
    /\ last.op = "enter"
    /\ gui.issued >= 2
    /\ \E i \in 1..Len(gui.released) : gui.released[i] = None

\* C29: when run_vesselness ends, by returning or by raising at any step, the
\* scene holds none of the nodes the case loaded or created; and when the
\* input fails to load, it ends without a new node and without a new file.
C29_CleanSceneAfterCase ==
    [][last'.op = "run_vesselness" =>
         /\ \A n \in 1..Len(scene') : n <= last'.args[1] /\ scene'[n] = scene[n]
         /\ batch'.failed = "load" =>
                /\ Len(scene') = last'.args[1]
                /\ batch'.files = last'.args[2]]_vars

\* A case raised after its load and left the nodes it had made by then.
C29_NodesLeftAfterRaise ==
    /\ last.op = "run_vesselness"
    /\ batch.failed \notin {"none", "load"}
    /\ Len(scene) > last.args[1]
    /\ scene[Len(scene)].name \in {"VesselnessOutput", "VesselSeg"}

====
